---------------------------- MODULE Spec2Model ----------------------------
(***************************************************************************)
(* Caliber: the statistics endpoint GET /api/evals/stats (the paginating   *)
(* aggregator), the client-side request cache (cachedFetch / clearCache),  *)
(* and the three pages that use it: the settings page (handleSubmit), the  *)
(* evaluations page (loadEvaluations and the Previous / Next buttons) and  *)
(* the dashboard (loadData and the range buttons).  Each page is one       *)
(* record: its React state under the names of the source, and the runs of  *)
(* its loader with the values their closures captured.                     *)
(*                                                                         *)
(* Units.  A Date is [day, ms]: day is the number of days since            *)
(* 1970-01-01 UTC and ms the milliseconds within that day.  A calendar     *)
(* date string "YYYY-MM-DD" is the triple <<y, m, d>>.  Scores are kept in *)
(* hundredths (the column is NUMERIC(5,2)), so 70 is 7000.  Rounded        *)
(* averages of the response are kept in tenths (80.0 is 800).              *)
(*                                                                         *)
(* Numbers.  The code computes with IEEE doubles.  Latencies and counts    *)
(* are integers, and the scores of the tables examined here are multiples  *)
(* of 0.25, so every sum is exact and every quotient is the double nearest *)
(* to the exact quotient.  Away from a half the error of that double is    *)
(* far smaller than the distance to the half; at a half toFixed(1) prints  *)
(* the side on which the double lies (380.25 / 5 is the double just below  *)
(* 76.05 and prints as 76.0; 60.25 is exact and prints as 60.3).           *)
(***************************************************************************)
EXTENDS Integers, Sequences, FiniteSets, TLC

VARIABLES
    \* ---- server side: the evaluations table and one GET request --------
    evaluations,   \* rows of the table, in the order the store returns them
    now,           \* the server's clock when the request is handled
    pc,            \* position of the GET handler
    param,         \* the raw `days` query parameter
    authResult,    \* how supabase.auth.getUser() ended
    user,          \* result of supabase.auth.getUser()
    days,          \* parseInt(...) of the parameter
    startUtc,      \* window start
    offset,        \* loop variable of the page loop
    agg,           \* running totals and dailyMap
    response,      \* the NextResponse returned
    queries,       \* offsets of the page queries issued by this request
    pageResults,   \* what each of these queries returned, in order
    repeated,      \* whether the request repeats the one answered before it
    \* ---- client side: the request cache (lib/cache) ---------------------
    clock,         \* the browser's clock (Date.now())
    cache,         \* key -> stored entry {payload, expiresAt}
    inflight,      \* key -> id of the pending network call shared by callers
    requests,      \* network calls that have not settled yet
    callers,       \* the cachedFetch call of each caller and how it went
    netCalls,      \* number of network calls issued so far
    serverVersion, \* what the server would answer now
    cleared,       \* key -> whether clearCache ran since the last call
    failed,        \* key -> network failures since the last call
    refused,       \* key -> responses that were not ok since the last call
    last,          \* the step taken last: the call or settlement and what it saw
    \* ---- client side: the pages ----------------------------------------
    configPage,    \* ConfigPage: its state and the run of handleSubmit
    evaluationsPage, \* EvaluationsPage: its state and its page requests
    dashboard      \* Dashboard: its state and the runs of loadData

statsVars == <<evaluations, now, pc, param, authResult, user, days, startUtc, offset,
               agg, response, queries, pageResults, repeated>>

cacheVars == <<clock, cache, inflight, requests, callers, netCalls,
               serverVersion, cleared, failed, refused, last>>

pageVars == <<configPage, evaluationsPage, dashboard>>

vars == <<statsVars, cacheVars, pageVars>>

---------------------------------------------------------------------------
(* Bounds of the model *)

MaxRuns == 2            \* runs of loadData outstanding when a range is clicked
MaxRows == 5            \* largest table
MaxDays == 3            \* largest explicit days parameter
MaxClock == 2           \* the client clock runs from 0 to MaxClock
MaxTtl == 1             \* largest ttlMs a caller passes
MaxNet == 2             \* network calls issued in one run
MaxVersion == 1         \* times the server's answer changes

(* Program constants, scaled: the code reads pages of 1000 rows and stops  *)
(* at offset 100000 (100 pages); the model reads pages of 2 rows and stops *)
(* at offset 4 (2 pages).                                                  *)
pageSize == 2
MaxPages == 2
\* a ceiling one page further on
OffsetCeilingRaised == (MaxPages + 1) * pageSize
OffsetCeiling == MaxPages * pageSize

\* a default window of 30 days
DefaultDaysThirty == <<"3", "0">>
\* the text parsed when the request carries no days parameter
DefaultDays == <<"7">>
\* a success threshold at the lower end of the fair bucket
SuccessFromFair == 50 * 100
SuccessThreshold == 7000
ExcellentMin == 9000
GoodMin == 7000
FairMin == 5000

Me == "u1"
Other == "u2"

---------------------------------------------------------------------------
(* ECMAScript Date arithmetic (proleptic Gregorian calendar, UTC) *)

\* MakeDay(year, month, 1) + d - 1: day number of a civil date; d may lie
\* outside the month, as in setUTCDate.
DaysFromCivil(y, m, d) ==
    LET yy  == IF m <= 2 THEN y - 1 ELSE y
        era == yy \div 400
        yoe == yy - era * 400
        mp  == (m + 9) % 12
        doy == (153 * mp + 2) \div 5 + d - 1
        doe == yoe * 365 + yoe \div 4 - yoe \div 100 + doy
    IN  era * 146097 + doe - 719468

\* YearFromTime / MonthFromTime / DateFromTime of a day number.
CivilFromDays(z) ==
    LET zz  == z + 719468
        era == zz \div 146097
        doe == zz - era * 146097
        yoe == (doe - doe \div 1460 + doe \div 36524 - doe \div 146096) \div 365
        doy == doe - (365 * yoe + yoe \div 4 - yoe \div 100)
        mp  == (5 * doy + 2) \div 153
        d   == doy - (153 * mp + 2) \div 5 + 1
        m   == IF mp < 10 THEN mp + 3 ELSE mp - 9
        y   == yoe + era * 400 + (IF m <= 2 THEN 1 ELSE 0)
    IN  <<y, m, d>>

InvalidDate == [valid |-> FALSE, day |-> 0, ms |-> 0]

\* Date.prototype.setUTCHours(0, 0, 0, 0)
SetUTCHoursZero(date) == [date EXCEPT !.ms = 0]

\* Date.prototype.getUTCDate()
GetUTCDate(date) == CivilFromDays(date.day)[3]

\* Date.prototype.setUTCDate(dt), dt a number; NaN gives an Invalid Date.
SetUTCDate(date, dt) ==
    IF dt.nan \/ ~date.valid THEN InvalidDate
    ELSE LET c == CivilFromDays(date.day)
         IN  [date EXCEPT !.day = DaysFromCivil(c[1], c[2], 1) + dt.val - 1]

\* toIsoDate = date.toISOString().split('T')[0]
toIsoDate(date) == CivilFromDays(date.day)

\* dateKeyFromCreatedAt = createdAt.slice(0, 10); the store prints
\* created_at as an ISO timestamp in UTC.
dateKeyFromCreatedAt(createdAt) == CivilFromDays(createdAt.day)

\* created_at >= threshold, as the store compares timestamps
TimestampGte(a, b) == a.day > b.day \/ (a.day = b.day /\ a.ms >= b.ms)

---------------------------------------------------------------------------
(* parseInt and JS numbers *)

Num(n) == [nan |-> FALSE, val |-> n]
NaN == [nan |-> TRUE, val |-> 0]

DigitChars == {"0", "1", "2", "3", "4", "5", "6", "7", "8", "9"}
DigitValue(c) ==
    CASE c = "0" -> 0 [] c = "1" -> 1 [] c = "2" -> 2 [] c = "3" -> 3
      [] c = "4" -> 4 [] c = "5" -> 5 [] c = "6" -> 6 [] c = "7" -> 7
      [] c = "8" -> 8 [] c = "9" -> 9

RECURSIVE ParseDigits(_, _, _)
\* longest prefix of decimal digits of s from position i; <<value, count>>
ParseDigits(s, i, accum) ==
    IF i > Len(s) \/ s[i] \notin DigitChars THEN accum
    ELSE ParseDigits(s, i + 1, <<accum[1] * 10 + DigitValue(s[i]), accum[2] + 1>>)

\* parseInt(s): optional sign, then the longest prefix of digits; NaN if none
parseInt(s) ==
    LET neg   == Len(s) > 0 /\ s[1] = "-"
        first == IF Len(s) > 0 /\ s[1] \in {"-", "+"} THEN 2 ELSE 1
        r     == ParseDigits(s, first, <<0, 0>>)
    IN  IF r[2] = 0 THEN NaN
        ELSE Num(IF neg THEN 0 - r[1] ELSE r[1])

\* searchParams.get('days') || '7'
DaysText(p) == IF p.present /\ Len(p.text) > 0 THEN p.text ELSE DefaultDays

\* round half up of num/den (den > 0, num >= 0): Math.round and toFixed(0)
\* of a quotient of integers (a half is exact), and toFixed(1) of a share
\* in percent (num = 1000 * k), which meets a half only for den >= 16
RoundDiv(num, den) == (2 * num + den) \div (2 * den)

\* floor(log2(h / 100)) for h > 0: the binary exponent of h hundredths
RECURSIVE BinaryExponent(_)
BinaryExponent(h) ==
    IF h >= 200 THEN BinaryExponent(h \div 2) + 1
    ELSE IF h < 100 THEN BinaryExponent(2 * h) - 1
    ELSE 0

\* (x * 2^p) % 100
RECURSIVE ShiftMod100(_, _)
ShiftMod100(x, p) == IF p = 0 THEN x % 100 ELSE ShiftMod100((2 * x) % 100, p - 1)

\* the double nearest to h / 100 is not below h / 100.  Its 53-bit
\* significand is h * 2^(52 - exponent) / 100 rounded to the nearest
\* integer, so the fraction cut off is ((h * 2^(52 - exponent)) % 100) / 100.
DoubleNotBelow(h) ==
    LET x == ShiftMod100(h, 52 - BinaryExponent(h))
    IN  x = 0 \/ x > 50

\* the quotient cut off after the first decimal instead of rounded
toFixed1Truncated(sum, count) == sum \div (10 * count)

\* (sum / count).toFixed(1), sum in hundredths and exact, count > 0; the
\* result in tenths.  toFixed prints the value with one decimal nearest to
\* the double, and the larger one if the double lies exactly between two.
toFixed1(sum, count) ==
    LET f == sum \div (10 * count)
        r == sum % (10 * count)
    IN  IF 2 * r > 10 * count THEN f + 1
        ELSE IF 2 * r < 10 * count THEN f
        ELSE IF DoubleNotBelow(10 * f + 5) THEN f + 1 ELSE f

---------------------------------------------------------------------------
(* The aggregator's accumulation *)

ZeroAgg ==
    [total |-> 0, totalScore |-> 0, totalLatency |-> 0, successCount |-> 0,
     totalPiiRedacted |-> 0,
     scoreDistribution |-> [excellent |-> 0, good |-> 0, fair |-> 0, poor |-> 0],
     dailyMap |-> << >>]

\* accumulators that outlive the request
TotalsKept(a) == a

\* let total = 0, ..., const scoreDistribution, const dailyMap: declared in
\* the handler, so every request starts from new ones
FreshTotals(a) == ZeroAgg

ZeroDay == [count |-> 0, totalScore |-> 0, totalLatency |-> 0]

\* dailyMap.get(key) || {count: 0, ...}
DailyGet(dailyMap, key) ==
    IF key \in DOMAIN dailyMap THEN dailyMap[key] ELSE ZeroDay

\* the loop body with the score rounded to one decimal before it is added
AccumulateRowRounded(a, e) ==
    LET sd  == a.scoreDistribution
        key == dateKeyFromCreatedAt(e.created_at)
        sc  == RoundDiv(e.score, 10) * 10
        existing == DailyGet(a.dailyMap, key)
        updated  == [count |-> existing.count + 1,
                     totalScore |-> existing.totalScore + sc,
                     totalLatency |-> existing.totalLatency + e.latency_ms]
    IN  [total |-> a.total + 1,
         totalScore |-> a.totalScore + sc,
         totalLatency |-> a.totalLatency + e.latency_ms,
         successCount |-> a.successCount
                          + (IF e.score >= SuccessThreshold THEN 1 ELSE 0),
         totalPiiRedacted |-> a.totalPiiRedacted
                          + (IF e.pii_tokens_redacted.isNull THEN 0
                             ELSE e.pii_tokens_redacted.val),
         scoreDistribution |->
            IF e.score >= ExcellentMin THEN [sd EXCEPT !.excellent = @ + 1]
            ELSE IF e.score >= GoodMin THEN [sd EXCEPT !.good = @ + 1]
            ELSE IF e.score >= FairMin THEN [sd EXCEPT !.fair = @ + 1]
            ELSE [sd EXCEPT !.poor = @ + 1],
         dailyMap |-> [k \in (DOMAIN a.dailyMap) \cup {key} |->
                          IF k = key THEN updated ELSE a.dailyMap[k]]]

\* body of `for (const e of page)`
AccumulateRow(a, e) ==
    LET sd  == a.scoreDistribution
        key == dateKeyFromCreatedAt(e.created_at)
        existing == DailyGet(a.dailyMap, key)
        updated  == [count |-> existing.count + 1,
                     totalScore |-> existing.totalScore + e.score,
                     totalLatency |-> existing.totalLatency + e.latency_ms]
    IN  [total |-> a.total + 1,
         totalScore |-> a.totalScore + e.score,
         totalLatency |-> a.totalLatency + e.latency_ms,
         successCount |-> a.successCount
                          + (IF e.score >= SuccessThreshold THEN 1 ELSE 0),
         totalPiiRedacted |-> a.totalPiiRedacted
                          + (IF e.pii_tokens_redacted.isNull THEN 0
                             ELSE e.pii_tokens_redacted.val),
         scoreDistribution |->
            IF e.score >= ExcellentMin THEN [sd EXCEPT !.excellent = @ + 1]
            ELSE IF e.score >= GoodMin THEN [sd EXCEPT !.good = @ + 1]
            ELSE IF e.score >= FairMin THEN [sd EXCEPT !.fair = @ + 1]
            ELSE [sd EXCEPT !.poor = @ + 1],
         dailyMap |-> [k \in (DOMAIN a.dailyMap) \cup {key} |->
                          IF k = key THEN updated ELSE a.dailyMap[k]]]

RECURSIVE AccumulatePage(_, _)
AccumulatePage(a, page) ==
    IF page = << >> THEN a
    ELSE AccumulatePage(AccumulateRow(a, Head(page)), Tail(page))

---------------------------------------------------------------------------
(* The store's paged query *)

RECURSIVE FilterRowsAllTenants(_, _, _)
\* the query without .eq('user_id', uid)
FilterRowsAllTenants(rows, uid, from) ==
    IF rows = << >> THEN << >>
    ELSE LET r == Head(rows)
             rest == FilterRowsAllTenants(Tail(rows), uid, from)
         IN  IF TimestampGte(r.created_at, from)
             THEN <<r>> \o rest ELSE rest

RECURSIVE FilterRows(_, _, _)
\* .eq('user_id', uid).gte('created_at', from), order preserved
FilterRows(rows, uid, from) ==
    IF rows = << >> THEN << >>
    ELSE LET r == Head(rows)
             rest == FilterRows(Tail(rows), uid, from)
         IN  IF r.user_id = uid /\ TimestampGte(r.created_at, from)
             THEN <<r>> \o rest ELSE rest

\* .range(lo, hi): rows lo..hi (0-based, inclusive) of the result
Range(rows, lo, hi) ==
    IF lo >= Len(rows) THEN << >>
    ELSE SubSeq(rows, lo + 1, IF hi + 1 > Len(rows) THEN Len(rows) ELSE hi + 1)

PageQuery(rows, uid, from, off) ==
    Range(FilterRows(rows, uid, from), off, off + pageSize - 1)

\* a loop that goes on after a short page
LastPageWhenEmpty(page) == Len(page) = 0

\* the page ends the loop: page.length === 0, or page.length < pageSize
\* after the rows have been added
LastPage(page) == Len(page) = 0 \/ Len(page) < pageSize

---------------------------------------------------------------------------
(* Building the response *)

\* the window start moved one day too far back
StartUtcOffByOne(t, d) ==
    LET s0 == SetUTCHoursZero(t)
    IN  SetUTCDate(s0, IF d.nan THEN NaN ELSE Num(GetUTCDate(s0) - d.val))

\* window start: today 00:00 UTC minus (days - 1) days
StartUtc(t, d) ==
    LET s0 == SetUTCHoursZero(t)
    IN  SetUTCDate(s0, IF d.nan THEN NaN ELSE Num(GetUTCDate(s0) - (d.val - 1)))

\* one point of dailyTrends
DailyPoint(s, dailyMap, idx) ==
    LET day  == SetUTCDate(s, Num(GetUTCDate(s) + idx))
        date == toIsoDate(day)
    IN  IF date \notin DOMAIN dailyMap \/ dailyMap[date].count = 0
        THEN [date |-> date, count |-> 0, avgScore |-> 0, avgLatency |-> 0]
        ELSE LET data == dailyMap[date]
             IN  [date |-> date, count |-> data.count,
                  \* toFixed(1) of totalScore/count, in tenths
                  avgScore |-> toFixed1(data.totalScore, data.count),
                  avgLatency |-> RoundDiv(data.totalLatency, data.count)]

\* Array.from({ length: days }): ToLength clamps NaN and negatives to 0
ArrayLength(d) == IF d.nan \/ d.val < 0 THEN 0 ELSE d.val

DailyTrends(s, dailyMap, d) ==
    [i \in 1..ArrayLength(d) |-> DailyPoint(s, dailyMap, i - 1)]

\* the averages (total > 0 ? sum / total : 0) and the data of the response
StatsData(a, s, d) ==
    [totalEvals |-> a.total,
     avgScore |-> IF a.total > 0 THEN toFixed1(a.totalScore, a.total) ELSE 0,
     avgLatency |-> IF a.total > 0 THEN RoundDiv(a.totalLatency, a.total) ELSE 0,
     successRate |-> IF a.total > 0
                     THEN RoundDiv(a.successCount * 1000, a.total) ELSE 0,
     totalPiiRedacted |-> a.totalPiiRedacted,
     dailyTrends |-> DailyTrends(s, a.dailyMap, d),
     scoreDistribution |-> a.scoreDistribution]

NoResponse == [status |-> 0, error |-> << >>, data |-> << >>]
OkResponse(data) == [status |-> 200, error |-> << >>, data |-> <<data>>]
\* an error turned into an empty statistics payload
ErrorAsZeroStats(status, msg) ==
    [status |-> 200, error |-> << >>,
     data |-> <<StatsData(ZeroAgg, InvalidDate, Num(0))>>]

\* NextResponse.json({ error: msg }, { status })
ErrorResponse(status, msg) ==
    [status |-> status, error |-> <<msg>>, data |-> << >>]

---------------------------------------------------------------------------
(* The request cache: cachedFetch(url, options, ttlMs) and clearCache *)

Callers == {"c1", "c2"}
Urls == {"/api/config"}
\* options: undefined, or { method: 'GET' }
OptionsSet == {"undefined", "GET"}
Ttls == {0 - 1, 0} \cup 1..MaxTtl

\* key = canonical (method, url, body); the default method is GET
CacheKey(url, options) ==
    <<IF options = "undefined" THEN "GET" ELSE options, url, "">>

Keys == { CacheKey(u, o) : u \in Urls, o \in OptionsSet }

NoPayload == [ok |-> FALSE, body |-> 0]
NoEntry == [present |-> FALSE, payload |-> NoPayload, expiresAt |-> 0]
NoResult == [fromCache |-> FALSE, outcome |-> "none", payload |-> NoPayload]
IdleCaller == [st |-> "idle", req |-> 0, result |-> NoResult]
NotCleared == "none"
NotFailed == [shared |-> FALSE, bypass |-> FALSE, waiters |-> 0]
NotRefused == [shared |-> FALSE, bypass |-> FALSE]
NoKey == <<"", "", "">>

\* a step that is neither a cachedFetch call nor a settling network call
OtherStep(op) ==
    [op |-> op, caller |-> "", key |-> NoKey, ttl |-> 0, decision |-> "none",
     entry |-> NoEntry, at |-> 0, marker |-> FALSE, pending |-> FALSE,
     afterClear |-> NotCleared, afterFail |-> NotFailed,
     afterNotOk |-> NotRefused,
     netBefore |-> 0, id |-> 0, outcome |-> "none"]

\* an entry that stays valid at its expiry time
IsValidAtExpiry(e, t) == e.present /\ t <= e.expiresAt

\* an entry that is dropped one tick before its expiry time
IsValidEarly(e, t) == e.present /\ t + 1 < e.expiresAt

\* an entry is valid while now < expiresAt
IsValid(e, t) == e.present /\ t < e.expiresAt

\* a ttl of 0 that is treated like any other ttl
NeverCacheOff(ttl) == FALSE

\* a ttl of 0 or less means: never cache, always fetch
NeverCache(ttl) == ttl <= 0

\* the decision without the attachment to a pending call
DecideNoDedup(ttl, e, t, marker) ==
    IF NeverCache(ttl) THEN "network"
    ELSE IF IsValid(e, t) THEN "cache"
    ELSE "network"

\* what a call does: serve the entry, attach to the pending call, or fetch
Decide(ttl, e, t, marker) ==
    IF NeverCache(ttl) THEN "network"
    ELSE IF IsValid(e, t) THEN "cache"
    ELSE IF marker # 0 THEN "attach"
    ELSE "network"

\* a settled call whose response is stored whatever its status
SettleCacheAnyResponse(c, r, outcome, body, t) ==
    IF outcome # "failed" /\ ~NeverCache(r.ttl)
    THEN [c EXCEPT ![r.key] = [present |-> TRUE,
                               payload |-> [ok |-> outcome = "ok", body |-> body],
                               expiresAt |-> t + r.ttl]]
    ELSE c

\* a settled call whose failure is stored like a response
SettleCacheAlways(c, r, outcome, body, t) ==
    IF ~NeverCache(r.ttl)
    THEN [c EXCEPT ![r.key] = [present |-> TRUE,
                               payload |-> [ok |-> outcome = "ok", body |-> body],
                               expiresAt |-> t + r.ttl]]
    ELSE c

\* the cache after network call r settled: only a successful response of a
\* caching call is stored, with expiresAt = now + ttlMs
SettleCache(c, r, outcome, body, t) ==
    IF outcome = "ok" /\ ~NeverCache(r.ttl)
    THEN [c EXCEPT ![r.key] = [present |-> TRUE,
                               payload |-> [ok |-> TRUE, body |-> body],
                               expiresAt |-> t + r.ttl]]
    ELSE c

\* a marker that is removed on success only
SettleMarkerOnSuccess(m, r, outcome) ==
    IF outcome # "failed" /\ m[r.key] = r.id THEN [m EXCEPT ![r.key] = 0] ELSE m

\* the in-flight markers after network call r settled: its marker is
\* removed, on success and on failure
SettleMarker(m, r, outcome) ==
    IF m[r.key] = r.id THEN [m EXCEPT ![r.key] = 0] ELSE m

\* clearCache(keyOrUrl) matches a key or every key of a URL
KeyArg(k) == [isKey |-> TRUE, key |-> k, url |-> k[2]]
UrlArg(u) == [isKey |-> FALSE, key |-> NoKey, url |-> u]
ClearArgs == { KeyArg(k) : k \in Keys } \cup { UrlArg(u) : u \in Urls }
Matches(k, arg) == IF arg.isKey THEN k = arg.key ELSE k[2] = arg.url

\* a clearCache that removes nothing
clearCacheNoop(c, arg) == c

\* clearCache(keyOrUrl): the matching entries are removed
clearCache(c, arg) ==
    [k \in DOMAIN c |-> IF Matches(k, arg) THEN NoEntry ELSE c[k]]

CacheInit ==
    /\ clock = 0
    /\ cache = [k \in Keys |-> NoEntry]
    /\ inflight = [k \in Keys |-> 0]
    /\ requests = {}
    /\ callers = [c \in Callers |-> IdleCaller]
    /\ netCalls = 0
    /\ serverVersion = 0
    /\ cleared = [k \in Keys |-> NotCleared]
    /\ failed = [k \in Keys |-> NotFailed]
    /\ refused = [k \in Keys |-> NotRefused]
    /\ last = OtherStep("init")

\* caller c calls cachedFetch(url, options, ttl): the synchronous part, up
\* to the return of a cached entry or the wait for a network call
CachedFetch(c, url, options, ttl) ==
    LET k == CacheKey(url, options)
        d == Decide(ttl, cache[k], clock, inflight[k])
    IN  /\ callers[c].st # "waiting"
        /\ last' = [op |-> "fetch", caller |-> c, key |-> k, ttl |-> ttl,
                    decision |-> d, entry |-> cache[k], at |-> clock,
                    marker |-> inflight[k] # 0,
                    pending |-> \E r \in requests : r.key = k,
                    afterClear |-> cleared[k], afterFail |-> failed[k],
                    afterNotOk |-> refused[k],
                    netBefore |-> netCalls, id |-> 0, outcome |-> "none"]
        /\ cleared' = [cleared EXCEPT ![k] = NotCleared]
        /\ failed' = [failed EXCEPT ![k] = NotFailed]
        /\ refused' = [refused EXCEPT ![k] = NotRefused]
        /\ CASE d = "cache" ->
                  /\ callers' = [callers EXCEPT ![c] =
                        [st |-> "returned", req |-> 0,
                         result |-> [fromCache |-> TRUE, outcome |-> "ok",
                                     payload |-> cache[k].payload]]]
                  /\ UNCHANGED <<inflight, requests, netCalls>>
             [] d = "attach" ->
                  /\ callers' = [callers EXCEPT ![c] =
                        [st |-> "waiting", req |-> inflight[k],
                         result |-> NoResult]]
                  /\ UNCHANGED <<inflight, requests, netCalls>>
             [] d = "network" ->
                  /\ netCalls < MaxNet
                  /\ netCalls' = netCalls + 1
                  /\ requests' = requests \cup
                        {[id |-> netCalls + 1, key |-> k, ttl |-> ttl]}
                  /\ inflight' = IF NeverCache(ttl) THEN inflight
                                 ELSE [inflight EXCEPT ![k] = netCalls + 1]
                  /\ callers' = [callers EXCEPT ![c] =
                        [st |-> "waiting", req |-> netCalls + 1,
                         result |-> NoResult]]
        /\ UNCHANGED <<clock, cache, serverVersion>>
        /\ UNCHANGED <<statsVars, pageVars>>

\* network call r settles: with an ok response, a response that is not ok,
\* or a failure (the fetch rejects)
Settle(r, outcome) ==
    LET waiting == { c \in Callers :
                       callers[c].st = "waiting" /\ callers[c].req = r.id }
    IN  /\ r \in requests
        /\ requests' = requests \ {r}
        /\ cache' = SettleCache(cache, r, outcome, serverVersion, clock)
        /\ inflight' = SettleMarker(inflight, r, outcome)
        /\ callers' = [c \in Callers |->
              IF c \in waiting
              THEN [st |-> "returned", req |-> r.id,
                    result |-> [fromCache |-> FALSE, outcome |-> outcome,
                                payload |-> IF outcome = "failed" THEN NoPayload
                                            ELSE [ok |-> outcome = "ok",
                                                  body |-> serverVersion]]]
              ELSE callers[c]]
        /\ failed' = IF outcome # "failed" THEN failed
                     ELSE IF NeverCache(r.ttl)
                     THEN [failed EXCEPT ![r.key].bypass = TRUE]
                     ELSE [failed EXCEPT ![r.key].shared = TRUE,
                                         ![r.key].waiters = Cardinality(waiting)]
        /\ refused' = IF outcome # "notok" THEN refused
                      ELSE IF NeverCache(r.ttl)
                      THEN [refused EXCEPT ![r.key].bypass = TRUE]
                      ELSE [refused EXCEPT ![r.key].shared = TRUE]
        /\ last' = [OtherStep("settle") EXCEPT
                      !.key = r.key, !.ttl = r.ttl, !.entry = cache[r.key],
                      !.at = clock, !.id = r.id, !.outcome = outcome]
        /\ UNCHANGED <<clock, netCalls, serverVersion, cleared>>
        /\ UNCHANGED <<statsVars, pageVars>>

\* clearCache(arg) is called, as after a successful save of the settings
ClearCache(arg) ==
    /\ cache' = clearCache(cache, arg)
    /\ cleared' = [k \in Keys |->
          IF ~Matches(k, arg) THEN cleared[k]
          ELSE IF inflight[k] # 0 THEN "busy"
          ELSE IF cache[k].present /\ clock < cache[k].expiresAt THEN "idleValid"
          ELSE "idle"]
    /\ last' = OtherStep("clear")
    /\ UNCHANGED <<clock, inflight, requests, callers, netCalls,
                   serverVersion, failed, refused>>
    /\ UNCHANGED <<statsVars, pageVars>>

\* time passes
Tick ==
    /\ clock < MaxClock
    /\ clock' = clock + 1
    /\ last' = OtherStep("tick")
    /\ UNCHANGED <<cache, inflight, requests, callers, netCalls,
                   serverVersion, cleared, failed, refused>>
    /\ UNCHANGED <<statsVars, pageVars>>

\* the data behind the URLs changes on the server
Mutate ==
    /\ serverVersion < MaxVersion
    /\ serverVersion' = serverVersion + 1
    /\ last' = OtherStep("mutate")
    /\ UNCHANGED <<clock, cache, inflight, requests, callers, netCalls,
                   cleared, failed, refused>>
    /\ UNCHANGED <<statsVars, pageVars>>

---------------------------------------------------------------------------
(* The settings page: ConfigPage, its form and handleSubmit *)

ConfigUrl == "/api/config"

\* values the form's controls can hold: the number inputs take any number
SampleRates == {0 - 1, 10, 101}
DailyLimits == {0 - 1, 1, 100}
ConfigValues ==
    [run_policy : {"always", "sampled"}, sample_rate_pct : SampleRates,
     obfuscate_pii : BOOLEAN, max_eval_per_day : DailyLimits]

\* useState<ConfigData>({...})
DefaultConfig ==
    [run_policy |-> "always", sample_rate_pct |-> 10,
     obfuscate_pii |-> FALSE, max_eval_per_day |-> 100]

\* a run of handleSubmit: where it is, whether validate() passed, how the
\* POST ended, the cache it found at its last step and its clearCache calls
NoRun ==
    [st |-> "none", valid |-> FALSE, outcome |-> "none",
     cacheBefore |-> << >>, clearCalls |-> 0]

ConfigPageInit ==
    [config |-> DefaultConfig, saving |-> FALSE, errors |-> {},
     showCheck |-> FALSE, notified |-> "none", run |-> NoRun]

\* validate(): the fields in error
validate(config) ==
    (IF config.run_policy = "sampled"
        /\ (config.sample_rate_pct < 0 \/ config.sample_rate_pct > 100)
     THEN {"sample_rate_pct"} ELSE {})
    \cup (IF config.max_eval_per_day < 1 THEN {"max_eval_per_day"} ELSE {})

\* a save that invalidates the cache after every response
ClearsAfterAnyResponse(outcome) == outcome \in {"ok", "notok", "badjson"}

\* if (response.ok) { clearCache('/api/config') ... }
ClearsAfter(outcome) == outcome = "ok"

\* updateConfig(key, value); the number inputs are disabled while saving
updateConfig(key, value) ==
    /\ key \in {"sample_rate_pct", "max_eval_per_day"} => ~configPage.saving
    /\ configPage.config[key] # value
    /\ configPage' = [configPage EXCEPT !.config[key] = value,
                                        !.errors = @ \ {key}]
    /\ UNCHANGED <<evaluationsPage, dashboard>>
    /\ UNCHANGED <<statsVars, cacheVars>>

\* the form is submitted (its submit button is disabled while saving):
\* handleSubmit up to its return on a failed validation or to the POST
handleSubmit ==
    /\ ~configPage.saving
    /\ LET nextErrors == validate(configPage.config)
       IN  IF nextErrors # {}
           THEN configPage' =
                   [configPage EXCEPT
                      !.errors = nextErrors, !.notified = "warning",
                      !.run = [st |-> "returned", valid |-> FALSE,
                               outcome |-> "none", cacheBefore |-> cache,
                               clearCalls |-> 0]]
           ELSE configPage' =
                   [configPage EXCEPT
                      !.errors = {}, !.saving = TRUE,
                      !.run = [st |-> "posting", valid |-> TRUE,
                               outcome |-> "none", cacheBefore |-> cache,
                               clearCalls |-> 0]]
    /\ UNCHANGED <<evaluationsPage, dashboard>>
    /\ UNCHANGED <<statsVars, cacheVars>>

\* the POST settles: with an ok response, with a response that is not ok
\* (whose body can be read, or not), or the fetch rejects; up to the return
PostReturns(outcome) ==
    /\ configPage.run.st = "posting"
    /\ cache' = IF ClearsAfter(outcome)
                THEN clearCache(cache, UrlArg(ConfigUrl)) ELSE cache
    /\ configPage' =
          [configPage EXCEPT
             !.showCheck = IF outcome = "ok" THEN TRUE ELSE @,
             !.notified = IF outcome = "ok" THEN "success" ELSE "error",
             !.saving = FALSE,
             !.run = [st |-> "returned", valid |-> TRUE, outcome |-> outcome,
                      cacheBefore |-> cache,
                      clearCalls |-> IF ClearsAfter(outcome) THEN 1 ELSE 0]]
    /\ UNCHANGED <<evaluationsPage, dashboard>>
    /\ UNCHANGED statsVars
    /\ UNCHANGED <<clock, inflight, requests, callers, netCalls,
                   serverVersion, cleared, failed, refused, last>>

\* window.setTimeout(() => setShowCheck(false), 1500)
HideCheck ==
    /\ configPage.showCheck
    /\ configPage' = [configPage EXCEPT !.showCheck = FALSE]
    /\ UNCHANGED <<evaluationsPage, dashboard>>
    /\ UNCHANGED <<statsVars, cacheVars>>

\* the entry a cachedFetch('/api/config', undefined, 12000) of loadConfig
\* left in the cache
ConfigEntry ==
    [present |-> TRUE, payload |-> [ok |-> TRUE, body |-> 0], expiresAt |-> 1]

---------------------------------------------------------------------------
(* The evaluations page: EvaluationsPage with the controls of EvalList *)

\* const PAGE_SIZE = 20, scaled
PAGE_SIZE == 2
\* rows of the largest table of the tenant: four full pages
MaxTotal == 4 * PAGE_SIZE
\* the tables examined: empty, two pages with a short or a full last page,
\* and the largest
TableSizes == {0, 2 * PAGE_SIZE - 1, 2 * PAGE_SIZE, MaxTotal}

Min(a, b) == IF a < b THEN a ELSE b
Max(a, b) == IF a > b THEN a ELSE b

\* GET /api/evals?page=q&limit=PAGE_SIZE over a table of `total` rows: the
\* number of pages, and the number of rows on page q
PagesOf(total) == (total + PAGE_SIZE - 1) \div PAGE_SIZE
RowsOn(q, total) == Max(0, Min(PAGE_SIZE, total - (q - 1) * PAGE_SIZE))
ListPages == 1..PagesOf(MaxTotal)

\* useState<EvaluationRow[]>([]): the rows shown are `len` rows of page `of`
NoRows == [of |-> 0, len |-> 0]
NoClick == [dir |-> "none", from |-> 0, of |-> 0, to |-> 0, requested |-> FALSE]
NotStored == 0 - 1

\* the page after mount: the effect has started its first run. Besides the
\* React state: the server's table, the runs of loadEvaluations (each with
\* the page and the shouldShowLoading of its closure), the network calls on
\* their way (each with the table it was answered from), the responses the
\* cache holds, and a record of the last click and of failed requests
EvaluationsPageMounted(total) ==
    [table |-> total, loading |-> TRUE, evaluations |-> NoRows, page |-> 1,
     totalPages |-> 1, totalCount |-> 0, hasLoadedOnce |-> FALSE,
     initialLoad |-> TRUE,
     runs |-> {[page |-> 1, show |-> TRUE, st |-> "auth"]},
     net |-> {}, stored |-> [q \in ListPages |-> NotStored],
     click |-> NoClick, failed |-> FALSE, redirected |-> FALSE]

\* the page is not open
EvaluationsPageInit ==
    [EvaluationsPageMounted(0) EXCEPT !.runs = {}, !.redirected = TRUE]

\* useEffect(..., [loadEvaluations, ...]): loadEvaluations is a new function
\* when page, hasLoadedOnce or evaluations.length changed, and the effect
\* then starts a run with the values of that render
EvaluationsEffect(old, new) ==
    IF \/ new.page # old.page
       \/ new.hasLoadedOnce # old.hasLoadedOnce
       \/ new.evaluations.len # old.evaluations.len
    THEN [new EXCEPT !.runs = @ \cup
             {[page |-> new.page,
               show |-> ~new.hasLoadedOnce \/ new.evaluations.len = 0,
               st |-> "auth"]}]
    ELSE new

\* loadEvaluations from the return of cachedFetch for page q: the response
\* was answered from a table of `total` rows
Received(s, q, total, fromCache, outcome) ==
    LET shown == IF outcome = "ok"
                 THEN [s EXCEPT
                         !.evaluations = [of |-> q, len |-> RowsOn(q, total)],
                         !.totalCount = total,
                         !.totalPages = IF PagesOf(total) = 0 THEN 1
                                        ELSE PagesOf(total)]
                 ELSE s
    IN  [shown EXCEPT !.loading = FALSE,
                      !.initialLoad = FALSE,
                      !.hasLoadedOnce = IF s.initialLoad THEN TRUE ELSE @,
                      !.failed = @ \/ outcome # "ok"]

\* an entry of the request cache that holds a response
StoredEntry(total) ==
    IF total = NotStored THEN NoEntry
    ELSE [present |-> TRUE, payload |-> [ok |-> TRUE, body |-> total],
          expiresAt |-> 1]

\* getUser() of a run returns; without a user the page is left for /login,
\* with one loadEvaluations runs up to the return of a cached response or
\* to the wait for the network
EvaluationsGetUserReturns(r, outcome) ==
    LET s == evaluationsPage
        rest == [s EXCEPT !.runs = @ \ {r}]
        shown == IF r.show THEN [rest EXCEPT !.loading = TRUE] ELSE rest
        pending == \E n \in s.net : n.page = r.page
        d == Decide(1, StoredEntry(s.stored[r.page]), 0,
                    IF pending THEN 1 ELSE 0)
    IN  /\ r \in s.runs /\ r.st = "auth"
        /\ evaluationsPage' =
              IF outcome = "nouser" THEN [rest EXCEPT !.redirected = TRUE]
              ELSE IF d = "cache"
              THEN EvaluationsEffect(s,
                      Received(shown, r.page, s.stored[r.page], TRUE, "ok"))
              ELSE [shown EXCEPT
                      !.runs = @ \cup {[r EXCEPT !.st = "fetch"]},
                      !.net = IF d = "attach" THEN @
                              ELSE @ \cup {[page |-> r.page, total |-> s.table]}]
        /\ UNCHANGED <<configPage, dashboard>>
        /\ UNCHANGED <<statsVars, cacheVars>>

\* a network call settles (ok, not ok, or the fetch rejects): the cache
\* keeps an ok response, and the runs that wait for it go on to their end
EvaluationsNetReturns(n, outcome) ==
    LET s == evaluationsPage
        waiting == { r \in s.runs : r.st = "fetch" /\ r.page = n.page }
        settled == [s EXCEPT
                      !.net = @ \ {n},
                      !.runs = @ \ waiting,
                      !.stored[n.page] = IF outcome = "ok" THEN n.total ELSE @]
    IN  /\ n \in s.net
        /\ evaluationsPage' =
              IF waiting = {} THEN settled
              ELSE EvaluationsEffect(s,
                      Received(settled, n.page, n.total, FALSE, outcome))
        /\ UNCHANGED <<configPage, dashboard>>
        /\ UNCHANGED <<statsVars, cacheVars>>

\* EvalList is rendered: there are rows, and the skeleton is not shown
ListShown ==
    /\ ~evaluationsPage.redirected
    /\ evaluationsPage.evaluations.len > 0
    /\ ~(evaluationsPage.loading /\ ~evaluationsPage.hasLoadedOnce)

\* onPageChange(Math.max(1, page - 1)), onPageChange(Math.min(totalPages || 1, page + 1))
ClickTarget(dir, page, totalPages) ==
    IF dir = "previous" THEN Max(1, page - 1)
    ELSE Min(IF totalPages = 0 THEN 1 ELSE totalPages, page + 1)

\* disabled={page === 1 || loading}, disabled={page === totalPages || loading}
ButtonDisabled(dir, page, totalPages, loading) ==
    \/ loading
    \/ dir = "previous" /\ page = 1
    \/ dir = "next" /\ page = totalPages

\* a click on Previous or Next: handlePageChange(nextPage)
Click(dir) ==
    LET s == evaluationsPage
        nextPage == ClickTarget(dir, s.page, s.totalPages)
        noted == [s EXCEPT !.click = [dir |-> dir, from |-> s.page,
                                      of |-> s.totalPages, to |-> nextPage,
                                      requested |-> nextPage # s.page]]
    IN  /\ ListShown
        /\ ~ButtonDisabled(dir, s.page, s.totalPages, s.loading)
        /\ evaluationsPage' =
              IF nextPage = s.page THEN noted
              ELSE EvaluationsEffect(s, [noted EXCEPT !.page = nextPage])
        /\ UNCHANGED <<configPage, dashboard>>
        /\ UNCHANGED <<statsVars, cacheVars>>

\* POST /api/evals/ingest: the tenant's table grows
Ingest(total) ==
    /\ ~evaluationsPage.redirected
    /\ evaluationsPage.table < total
    /\ evaluationsPage' = [evaluationsPage EXCEPT !.table = total]
    /\ UNCHANGED <<configPage, dashboard>>
    /\ UNCHANGED <<statsVars, cacheVars>>

\* the 8 seconds of a stored response are over
Expire(q) ==
    /\ evaluationsPage.stored[q] # NotStored
    /\ evaluationsPage' = [evaluationsPage EXCEPT !.stored[q] = NotStored]
    /\ UNCHANGED <<configPage, dashboard>>
    /\ UNCHANGED <<statsVars, cacheVars>>

---------------------------------------------------------------------------
(* The dashboard: DashboardPage, loadData and the range buttons *)

\* [7, 14, 30].map((range) => ...)
Ranges == {7, 14, 30}

\* useState<StatsData | null>(null); statistics are told apart by the
\* range they were computed for
NullStats == 0

\* the URLs of loadData
StatsUrl(d) == <<"/api/evals/stats?days=", d>>
RecentUrl == <<"/api/evals?limit=10", 0>>
DashboardUrls == {StatsUrl(d) : d \in Ranges} \cup {RecentUrl}

\* the values a run of loadData has in its closure
Closure(s) ==
    [days |-> s.days, hasLoadedOnce |-> s.hasLoadedOnce,
     hasStats |-> s.stats # NullStats, fromCache |-> s.fromCache,
     st |-> "auth", statsCached |-> FALSE, recentCached |-> FALSE]

\* the page after mount: the effect has started its first run. Besides the
\* React state and the two refs: the runs of loadData, the responses the
\* cache holds, and whether the page was left for /login
DashboardMounted(stored) ==
    LET s == [loading |-> TRUE, stats |-> NullStats, recentEvals |-> FALSE,
              days |-> 7, fromCache |-> FALSE, hasLoadedOnce |-> FALSE,
              previousStats7DayRef |-> NullStats,
              previousStats30DayRef |-> NullStats,
              runs |-> {}, stored |-> stored, redirected |-> FALSE]
    IN  [s EXCEPT !.runs = {Closure(s)}]

\* the page is not open
DashboardInit == [DashboardMounted({}) EXCEPT !.runs = {}, !.redirected = TRUE]

\* useEffect(..., [loadData, ...]): loadData is a new function when days,
\* hasLoadedOnce, stats or fromCache changed (statsSet: setStats was given
\* a newly parsed object), and the effect then starts a run
DashboardEffect(old, new, statsSet) ==
    IF \/ new.days # old.days
       \/ new.hasLoadedOnce # old.hasLoadedOnce
       \/ new.fromCache # old.fromCache
       \/ statsSet
    THEN [new EXCEPT !.runs = @ \cup {Closure(new)}]
    ELSE new

\* finally { if (!fromCache) setLoading(false) ... } with the fromCache of
\* the run's closure
EndsLoading(r) == ~r.fromCache

\* setStats((current) => { if (days === 7) previousStats7DayRef.current =
\* current; else previousStats30DayRef.current = current; return data })
StorePrevious(s, r) ==
    IF r.days = 7 THEN [s EXCEPT !.previousStats7DayRef = s.stats]
    ELSE [s EXCEPT !.previousStats30DayRef = s.stats]

\* loadData of run r from the return of Promise.all: so and eo say how the
\* stats request and the request of the recent rows ended ("cache", "ok",
\* "notok", or "failed": the fetch rejected); the updates of the
\* continuation are rendered together
Loaded(s, r, so, eo) ==
    LET thrown == so = "failed" \/ eo = "failed"
        anyCached == so = "cache" \/ eo = "cache"
        statsSet == ~thrown /\ so \in {"cache", "ok"}
        s1 == IF thrown THEN s
              ELSE [s EXCEPT !.fromCache = anyCached,
                             !.loading = IF anyCached THEN FALSE ELSE @]
        s2 == IF statsSet THEN [StorePrevious(s1, r) EXCEPT !.stats = r.days]
              ELSE s1
        s3 == IF ~thrown /\ eo \in {"cache", "ok"}
              THEN [s2 EXCEPT !.recentEvals = TRUE] ELSE s2
        s4 == [s3 EXCEPT !.loading = IF EndsLoading(r) THEN FALSE ELSE @,
                         !.hasLoadedOnce = TRUE]
    IN  DashboardEffect(s, s4, statsSet)

\* getUser() of a run returns; without a user the page is left for /login,
\* with one loadData runs up to the return of two cached responses or to
\* the wait for the network. A run issues its requests when no request of
\* another run is outstanding.
DashboardGetUserReturns(r, outcome) ==
    LET s == dashboard
        rest == [s EXCEPT !.runs = @ \ {r}]
        shown == IF ~(r.hasLoadedOnce /\ r.hasStats)
                 THEN [rest EXCEPT !.loading = TRUE] ELSE rest
        sc == StatsUrl(r.days) \in s.stored
        ec == RecentUrl \in s.stored
    IN  /\ r \in s.runs /\ r.st = "auth"
        /\ \A x \in s.runs : x.st = "auth"
        /\ dashboard' =
              IF outcome = "nouser" THEN [rest EXCEPT !.redirected = TRUE]
              ELSE IF sc /\ ec THEN Loaded(shown, r, "cache", "cache")
              ELSE [shown EXCEPT !.runs = @ \cup
                      {[r EXCEPT !.st = "fetch", !.statsCached = sc,
                                 !.recentCached = ec]}]
        /\ UNCHANGED <<configPage, evaluationsPage>>
        /\ UNCHANGED <<statsVars, cacheVars>>

\* the requests of run r have settled; the cache keeps the ok responses
DashboardFetchReturns(r, so, eo) ==
    LET s == dashboard
        kept == (IF so = "ok" THEN {StatsUrl(r.days)} ELSE {})
                \cup (IF eo = "ok" THEN {RecentUrl} ELSE {})
        rest == [s EXCEPT !.runs = @ \ {r}, !.stored = @ \cup kept]
    IN  /\ r \in s.runs /\ r.st = "fetch"
        /\ (so = "cache") = r.statsCached
        /\ (eo = "cache") = r.recentCached
        /\ dashboard' = Loaded(rest, r, so, eo)
        /\ UNCHANGED <<configPage, evaluationsPage>>
        /\ UNCHANGED <<statsVars, cacheVars>>

\* const showInitialSkeleton = loading && !stats
showInitialSkeleton == dashboard.loading /\ dashboard.stats = NullStats

\* a click on a range button: handleRangeChange(range)
handleRangeChange(range) ==
    /\ Cardinality(dashboard.runs) < MaxRuns
    /\ ~dashboard.redirected
    /\ ~showInitialSkeleton
    /\ dashboard.days # range
    /\ dashboard' = DashboardEffect(dashboard,
                                    [dashboard EXCEPT !.days = range], FALSE)
    /\ UNCHANGED <<configPage, evaluationsPage>>
    /\ UNCHANGED <<statsVars, cacheVars>>

\* the 15 or 10 seconds of a stored response are over
DashboardExpire(url) ==
    /\ url \in dashboard.stored
    /\ dashboard' = [dashboard EXCEPT !.stored = @ \ {url}]
    /\ UNCHANGED <<configPage, evaluationsPage>>
    /\ UNCHANGED <<statsVars, cacheVars>>

\* previousStats={days === 7 ? previousStats7DayRef.current
\*                           : previousStats30DayRef.current}
previousStats ==
    IF dashboard.days = 7 THEN dashboard.previousStats7DayRef
    ELSE dashboard.previousStats30DayRef

\* no page is open
PagesAtRest ==
    /\ configPage = ConfigPageInit
    /\ evaluationsPage = EvaluationsPageInit
    /\ dashboard = DashboardInit

---------------------------------------------------------------------------
(* Inputs of the server-side model *)

ValidDate(day, ms) == [valid |-> TRUE, day |-> day, ms |-> ms]
NullInt == [isNull |-> TRUE, val |-> 0]
SomeInt(n) == [isNull |-> FALSE, val |-> n]

\* the moments at which a request is handled: 12:00 UTC on days next to a
\* leap day, a year boundary and a month of 30 days
Todays == {<<2024, 3, 1>>, <<2025, 1, 2>>, <<2023, 7, 1>>}
NoonMs == 43200000
LateMs == 80000000
Nows == {ValidDate(DaysFromCivil(c[1], c[2], c[3]), NoonMs) : c \in Todays}

EvalRow(uid, day, ms, score, latency, pii) ==
    [user_id |-> uid, created_at |-> ValidDate(day, ms), score |-> score,
     latency_ms |-> latency, pii_tokens_redacted |-> pii]

\* rows a table may hold when the request arrives at time t (scores are
\* multiples of 0.25, one of them with two decimals): the tenant's
\* rows of yesterday, today (before and after t) and tomorrow, and a row of
\* another tenant
RowPool(t) ==
    { EvalRow(Me, t.day - 1, NoonMs, 9500, 100, NullInt),
      EvalRow(Me, t.day, 0, 8000, 201, SomeInt(3)),
      EvalRow(Me, t.day, 0, 6025, 100, SomeInt(0)),
      EvalRow(Me, t.day, LateMs, 4000, 300, SomeInt(1)),
      EvalRow(Me, t.day + 1, 0, 7000, 200, SomeInt(2)),
      EvalRow(Other, t.day, NoonMs, 9000, 150, SomeInt(5)) }

\* .order('created_at', { ascending: true })
IsAscending(rows) ==
    \A i \in 1..(Len(rows) - 1) :
        TimestampGte(rows[i + 1].created_at, rows[i].created_at)

Stores(t) ==
    { s \in UNION { [1..n -> RowPool(t)] : n \in 0..MaxRows } : IsAscending(s) }

DaysParams ==
    { [present |-> FALSE, text |-> << >>],
      [present |-> TRUE, text |-> << >>],
      [present |-> TRUE, text |-> <<"0">>],
      [present |-> TRUE, text |-> <<"-", "1">>],
      [present |-> TRUE, text |-> <<"a">>] }
    \cup { [present |-> TRUE, text |-> <<c>>] :
             c \in { d \in DigitChars : DigitValue(d) \in 1..MaxDays } }

NoUser == [isNull |-> TRUE, id |-> ""]
SomeUser(uid) == [isNull |-> FALSE, id |-> uid]

---------------------------------------------------------------------------
(* GET /api/evals/stats *)

StatsInit ==
    /\ now \in Nows
    /\ evaluations \in Stores(now)
    /\ pc = "idle"
    /\ param = [present |-> FALSE, text |-> << >>]
    /\ authResult = "none"
    /\ user = NoUser
    /\ days = NaN
    /\ startUtc = InvalidDate
    /\ offset = 0
    /\ agg = ZeroAgg
    /\ response = NoResponse
    /\ queries = << >>
    /\ pageResults = << >>

\* the server side at rest, while the client side is examined
StatsAtRest ==
    /\ now = ValidDate(DaysFromCivil(2024, 3, 1), NoonMs)
    /\ evaluations = << >>
    /\ pc = "idle"
    /\ param = [present |-> FALSE, text |-> << >>]
    /\ authResult = "none"
    /\ user = NoUser
    /\ days = NaN
    /\ startUtc = InvalidDate
    /\ offset = 0
    /\ agg = ZeroAgg
    /\ response = NoResponse
    /\ queries = << >>
    /\ pageResults = << >>
    /\ repeated = "untracked"

\* a request arrives: createClient() and auth.getUser() are awaited
Request(p) ==
    /\ pc = "idle"
    /\ pc' = "auth"
    /\ param' = p
    /\ authResult' = "none"
    /\ user' = NoUser
    /\ days' = NaN
    /\ startUtc' = InvalidDate
    /\ offset' = 0
    /\ agg' = FreshTotals(agg)
    /\ response' = NoResponse
    /\ queries' = << >>
    /\ pageResults' = << >>
    /\ repeated' = IF repeated = "untracked" THEN repeated
                    ELSE IF response.status = 200 /\ p = param THEN "yes"
                    ELSE "no"
    /\ UNCHANGED <<evaluations, now>>
    /\ UNCHANGED <<cacheVars, pageVars>>

\* the code from the end of the page loop to the return of the response
Finish(a) ==
    /\ response' = OkResponse(StatsData(a, startUtc, days))
    /\ pc' = "done"

\* a check that lets a missing user pass
UnauthorizedOnErrorOnly(outcome) == outcome = "error"

\* if (userError || !user)
Unauthorized(outcome) == outcome \in {"error", "nouser"}

\* getUser() returns; up to the first page query
GetUserReturns(outcome) ==
    /\ pc = "auth"
    /\ authResult' = outcome
    /\ IF outcome = "throw"
       THEN /\ response' = ErrorResponse(500, "Internal server error")
            /\ pc' = "done"
            /\ UNCHANGED <<user, days, startUtc, offset, agg, queries>>
       ELSE IF Unauthorized(outcome)
       THEN /\ response' = ErrorResponse(401, "Unauthorized")
            /\ pc' = "done"
            /\ UNCHANGED <<user, days, startUtc, offset, agg, queries>>
       ELSE   LET d == parseInt(DaysText(param))
                  s == StartUtc(now, d)
              IN  /\ user' = IF outcome = "user" THEN SomeUser(Me) ELSE NoUser
                  /\ days' = d
                  /\ startUtc' = s
                  /\ offset' = 0
                  /\ agg' = FreshTotals(agg)
                  /\ IF s.valid
                     THEN /\ queries' = <<0>>
                          /\ pc' = "page"
                          /\ UNCHANGED response
                     ELSE \* startUtc.toISOString() throws RangeError
                          /\ response' = ErrorResponse(500, "Internal server error")
                          /\ pc' = "done"
                          /\ UNCHANGED queries
    /\ UNCHANGED <<evaluations, now, param, pageResults, repeated>>
    /\ UNCHANGED <<cacheVars, pageVars>>

\* a page query returns; up to the next page query or the response
PageReturns(outcome) ==
    /\ pc = "page"
    /\ pageResults' = Append(pageResults, outcome)
    /\ CASE outcome = "error" ->
              /\ response' = ErrorResponse(500, "error.message")
              /\ pc' = "done"
              /\ UNCHANGED <<offset, agg, queries>>
         [] outcome = "throw" ->
              /\ response' = ErrorResponse(500, "Internal server error")
              /\ pc' = "done"
              /\ UNCHANGED <<offset, agg, queries>>
         [] outcome = "null" ->
              \* no error and no data: if (!page || ...) break
              /\ Finish(agg)
              /\ UNCHANGED <<offset, agg, queries>>
         [] outcome = "rows" ->
              LET page == PageQuery(evaluations, user.id, startUtc, offset)
                  a    == AccumulatePage(agg, page)
              IN  /\ agg' = a
                  /\ IF LastPage(page)
                     THEN /\ Finish(a)
                          /\ UNCHANGED <<offset, queries>>
                     ELSE /\ offset' = offset + pageSize
                          /\ IF offset + pageSize < OffsetCeiling
                             THEN /\ queries' = Append(queries, offset + pageSize)
                                  /\ pc' = "page"
                                  /\ UNCHANGED response
                             ELSE /\ Finish(a)
                                  /\ UNCHANGED queries
    /\ UNCHANGED <<evaluations, now, param, authResult, user, days, startUtc,
                   repeated>>
    /\ UNCHANGED <<cacheVars, pageVars>>

\* the response has been sent; the handler is ready for the next request
Respond ==
    /\ pc = "done"
    /\ pc' = "idle"
    /\ UNCHANGED <<evaluations, now, param, authResult, user, days, startUtc,
                   offset, agg, response, queries, pageResults, repeated>>
    /\ UNCHANGED <<cacheVars, pageVars>>

\* the statistics endpoint, one request after the other
Init == StatsInit /\ CacheInit /\ PagesAtRest /\ repeated = "untracked"
Next ==
    \/ \E p \in DaysParams : Request(p)
    \/ \E o \in {"user", "error", "nouser", "throw"} : GetUserReturns(o)
    \/ \E o \in {"rows", "null", "error", "throw"} : PageReturns(o)
    \/ Respond
Spec == Init /\ [][Next]_vars

\* the same endpoint at one moment, with the record of whether a request
\* repeats the successful request before it
InitRepeat ==
    /\ StatsInit /\ CacheInit /\ PagesAtRest
    /\ now = ValidDate(DaysFromCivil(2024, 3, 1), NoonMs)
    /\ repeated = "no"
SpecRepeat == InitRepeat /\ [][Next]_vars

\* the request cache with its callers
InitCache == StatsAtRest /\ CacheInit /\ PagesAtRest
NextCache ==
    \/ \E c \in Callers, u \in Urls, o \in OptionsSet, t \in Ttls :
          CachedFetch(c, u, o, t)
    \/ \E r \in requests, o \in {"ok", "notok", "failed"} : Settle(r, o)
    \/ \E arg \in ClearArgs : ClearCache(arg)
    \/ Tick
    \/ Mutate
SpecCache == InitCache /\ [][NextCache]_vars

\* the settings page over a cache that holds the settings, or not
InitConfig ==
    /\ StatsAtRest
    /\ clock = 0
    /\ cache \in {[k \in Keys |-> NoEntry], [k \in Keys |-> ConfigEntry]}
    /\ inflight = [k \in Keys |-> 0]
    /\ requests = {}
    /\ callers = [c \in Callers |-> IdleCaller]
    /\ netCalls = 0
    /\ serverVersion = 0
    /\ cleared = [k \in Keys |-> NotCleared]
    /\ failed = [k \in Keys |-> NotFailed]
    /\ refused = [k \in Keys |-> NotRefused]
    /\ last = OtherStep("init")
    /\ configPage = ConfigPageInit
    /\ evaluationsPage = EvaluationsPageInit
    /\ dashboard = DashboardInit
NextConfig ==
    \/ \E key \in DOMAIN DefaultConfig :
          \E value \in {c[key] : c \in ConfigValues} : updateConfig(key, value)
    \/ handleSubmit
    \/ \E o \in {"ok", "notok", "badjson", "throw"} : PostReturns(o)
    \/ HideCheck
SpecConfig == InitConfig /\ [][NextConfig]_vars

\* the evaluations page from its mount, over a table that grows
InitEvaluations ==
    /\ StatsAtRest /\ CacheInit
    /\ configPage = ConfigPageInit
    /\ evaluationsPage \in {EvaluationsPageMounted(t) : t \in TableSizes}
    /\ dashboard = DashboardInit
NextEvaluations ==
    \/ \E r \in evaluationsPage.runs, o \in {"user", "nouser"} :
          EvaluationsGetUserReturns(r, o)
    \/ \E n \in evaluationsPage.net, o \in {"ok", "notok", "failed"} :
          EvaluationsNetReturns(n, o)
    \/ \E dir \in {"previous", "next"} : Click(dir)
    \/ \E total \in TableSizes : Ingest(total)
    \/ \E q \in ListPages : Expire(q)
SpecEvaluations == InitEvaluations /\ [][NextEvaluations]_vars

\* the dashboard from its mount, over a cache that an earlier visit may
\* have filled
InitDashboard ==
    /\ StatsAtRest /\ CacheInit
    /\ configPage = ConfigPageInit
    /\ evaluationsPage = EvaluationsPageInit
    /\ dashboard \in {DashboardMounted(stored) :
                         stored \in {{}, {RecentUrl}, DashboardUrls}}
NextDashboard ==
    \/ \E r \in dashboard.runs, o \in {"user", "nouser"} :
          DashboardGetUserReturns(r, o)
    \/ \E r \in dashboard.runs :
          \E so, eo \in {"cache", "ok", "notok", "failed"} :
             DashboardFetchReturns(r, so, eo)
    \/ \E range \in Ranges : handleRangeChange(range)
    \/ \E url \in DashboardUrls : DashboardExpire(url)
SpecDashboard == InitDashboard /\ [][NextDashboard]_vars

---------------------------------------------------------------------------
(* Properties of GET /api/evals/stats *)

\* the calendar, stated independently of the Date arithmetic above
IsLeapYear(y) == (y % 4 = 0 /\ y % 100 # 0) \/ y % 400 = 0
DaysInMonth(y, m) ==
    IF m = 2 THEN (IF IsLeapYear(y) THEN 29 ELSE 28)
    ELSE IF m \in {4, 6, 9, 11} THEN 30 ELSE 31
NextCivilDay(c) ==
    IF c[3] < DaysInMonth(c[1], c[2]) THEN <<c[1], c[2], c[3] + 1>>
    ELSE IF c[2] < 12 THEN <<c[1], c[2] + 1, 1>>
    ELSE <<c[1] + 1, 1, 1>>

\* today's UTC date: the calendar date the clock was set from
TodayCivil == CHOOSE c \in Todays : DaysFromCivil(c[1], c[2], c[3]) = now.day

Succeeded == pc = "done" /\ response.status = 200
\* the store answered every page query with the rows asked for
AnsweredWithRows == \A i \in 1..Len(pageResults) : pageResults[i] = "rows"
PositiveDays == ~days.nan /\ days.val >= 1
Data == response.data[1]

RECURSIVE SumCounts(_)
SumCounts(points) ==
    IF points = << >> THEN 0 ELSE Head(points).count + SumCounts(Tail(points))

\* C1: for a positive days = d a successful response carries exactly d
\* daily points, on consecutive UTC calendar days in increasing order, the
\* last one on today's UTC date, whatever the table holds.
C1_DailySeriesShape ==
    (Succeeded /\ PositiveDays) =>
        LET t == Data.dailyTrends
        IN  /\ Len(t) = days.val
            /\ \A i \in 1..(Len(t) - 1) : t[i + 1].date = NextCivilDay(t[i].date)
            /\ t[Len(t)].date = TodayCivil

\* a 3-day series that crosses a month boundary and has a day without rows
C1_Witness ==
    /\ Succeeded
    /\ PositiveDays /\ days.val = 3
    /\ Len(evaluations) > 0
    /\ Data.dailyTrends[1].date[2] # Data.dailyTrends[3].date[2]
    /\ \E i \in 1..3 : Data.dailyTrends[i].count = 0
    /\ \E i \in 1..3 : Data.dailyTrends[i].count > 0

\* C2: in a successful response for a positive days the counts of the
\* daily points add up to totalEvals.
C2_DailyCountsSumToTotal ==
    (Succeeded /\ PositiveDays) =>
        SumCounts(Data.dailyTrends) = Data.totalEvals

\* the rows the page queries select, read in one pass
WindowRows == FilterRows(evaluations, user.id, startUtc)
OnePass == AccumulatePage(ZeroAgg, WindowRows)

\* C4: with more matching rows than one page holds and an unchanged table
\* that answers every query with its rows, the totals of a successful
\* response are those of one pass over all matching rows.
C4_PaginationCountsEveryRowOnce ==
    (Succeeded /\ AnsweredWithRows /\ PositiveDays /\ Len(WindowRows) > pageSize) =>
        /\ agg = OnePass
        /\ Data = StatsData(OnePass, startUtc, days)

\* C5: once a page query has returned an error the request ends with a 500
\* error response without a data payload.
C5_PageErrorAbortsRequest ==
    (\E i \in 1..Len(pageResults) : pageResults[i] \in {"error", "throw"}) =>
        /\ pc \in {"done", "idle"}
        /\ response.status = 500
        /\ Len(response.error) = 1
        /\ response.data = << >>

\* the second page query fails after the first page has been accumulated
C5_Witness ==
    /\ pc = "done"
    /\ Len(pageResults) = 2
    /\ pageResults[2] = "error"
    /\ agg.total = pageSize
    /\ response.status = 500

---------------------------------------------------------------------------
(* Properties of the request cache *)

LastFetch == last.op = "fetch"
\* the entry the call found was valid / had expired when the call was made
SawValid == last.entry.present /\ last.at < last.entry.expiresAt
SawExpired == last.entry.present /\ last.at >= last.entry.expiresAt
IssuedNetworkCall == last.decision = "network" /\ netCalls = last.netBefore + 1
IssuedNoNetworkCall ==
    netCalls = last.netBefore /\ inflight[last.key] # last.netBefore + 1

\* callers served by one network call receive the same result
SameRequestSameResult ==
    \A c1, c2 \in Callers :
        (/\ callers[c1].st = "returned" /\ callers[c2].st = "returned"
         /\ callers[c1].req # 0 /\ callers[c1].req = callers[c2].req)
        => callers[c1].result = callers[c2].result

\* C3 as stated: a call made while a call for the same key is outstanding
\* and no valid entry exists issues no network call of its own but attaches
\* to the outstanding one, and both callers receive the same payload.
C3_ConcurrentCallsOneNetworkCall ==
    /\ (LastFetch /\ last.pending /\ ~SawValid) =>
           /\ last.decision = "attach"
           /\ IssuedNoNetworkCall
           /\ Cardinality({r \in requests : r.key = last.key}) = 1
    /\ SameRequestSameResult

\* C3 amended: the same for two calls that both pass a positive ttlMs.
C3_ConcurrentCachingCallsOneNetworkCall ==
    /\ (LastFetch /\ last.ttl > 0 /\ last.marker /\ ~SawValid) =>
           /\ last.decision = "attach"
           /\ IssuedNoNetworkCall
           /\ callers[last.caller].req = inflight[last.key]
           /\ Cardinality({r \in requests : r.key = last.key /\ r.ttl > 0}) = 1
    /\ SameRequestSameResult

\* both callers were served by the single network call, after the server's
\* answer had changed
C3_Witness ==
    /\ netCalls = 1
    /\ \A c \in Callers :
          /\ callers[c].st = "returned"
          /\ callers[c].req = 1
          /\ callers[c].result.outcome = "ok"
          /\ callers[c].result.payload.body = MaxVersion

ServedFromCache ==
    /\ last.decision = "cache"
    /\ IssuedNoNetworkCall
    /\ callers[last.caller].st = "returned"
    /\ callers[last.caller].result =
          [fromCache |-> TRUE, outcome |-> "ok", payload |-> last.entry.payload]

\* C7 as stated: a call that finds a valid entry returns it with
\* fromCache = true and performs no network access.
C7_ValidEntryServed ==
    (LastFetch /\ SawValid) => ServedFromCache

\* C7 amended: the same for a call with a positive ttlMs.
C7_ValidEntryServedToCachingCall ==
    (LastFetch /\ SawValid /\ last.ttl > 0) => ServedFromCache

\* a valid entry is served although the server would answer differently
C7_Witness ==
    /\ LastFetch /\ SawValid /\ last.ttl > 0
    /\ ServedFromCache
    /\ last.entry.payload.body # serverVersion

\* C8 as stated: a call made at or after the expiry of the stored entry
\* triggers a new network call.
C8_ExpiredEntryFetches ==
    (LastFetch /\ SawExpired) => IssuedNetworkCall

\* C8 amended: such a call is treated as if no entry existed: it never
\* returns the stored payload; it triggers a new network call, or, when a
\* call for the key is registered in flight and ttlMs is positive, attaches
\* to that one.
C8_ExpiredEntryTreatedAsAbsent ==
    (LastFetch /\ SawExpired) =>
        /\ last.decision # "cache"
        /\ callers[last.caller].st = "waiting"
        /\ ~callers[last.caller].result.fromCache
        /\ IF last.marker /\ last.ttl > 0
           THEN last.decision = "attach" /\ IssuedNoNetworkCall
           ELSE IssuedNetworkCall

\* a caching call made exactly at the expiry time fetches anew
C8_Witness ==
    /\ LastFetch /\ SawExpired
    /\ last.at = last.entry.expiresAt
    /\ last.ttl > 0
    /\ IssuedNetworkCall

\* C9: a call with ttlMs <= 0 always performs a network call and is never
\* served from a stored entry.
C9_ZeroTtlAlwaysFetches ==
    (LastFetch /\ last.ttl <= 0) =>
        /\ IssuedNetworkCall
        /\ callers[last.caller].st = "waiting"
        /\ callers[last.caller].req = netCalls
        /\ ~callers[last.caller].result.fromCache

\* a call with ttlMs = 0 fetches although a valid entry is stored
C9_Witness ==
    /\ LastFetch /\ last.ttl = 0 /\ SawValid
    /\ IssuedNetworkCall

FailureSettled == last.op = "settle" /\ last.outcome = "failed"
\* nothing stored, the failure delivered to every attached caller
FailureNotStoredAndDelivered ==
    FailureSettled =>
        /\ cache[last.key] = last.entry
        /\ inflight[last.key] # last.id
        /\ \A c \in Callers :
              callers[c].req = last.id =>
                  /\ callers[c].st = "returned"
                  /\ callers[c].result.outcome = "failed"
                  /\ ~callers[c].result.fromCache

\* C10 as stated: a failed network call stores nothing and is delivered to
\* every attached caller, and the next call for the key issues a fresh
\* network call.
C10_FailureNotCachedNextCallFetches ==
    /\ FailureNotStoredAndDelivered
    /\ (LastFetch /\ (last.afterFail.shared \/ last.afterFail.bypass))
          => IssuedNetworkCall

\* C10 amended: the last part holds after the failure of a call made with
\* a positive ttlMs.
C10_FailureNotCachedNextCachingCallFetches ==
    /\ FailureNotStoredAndDelivered
    /\ (LastFetch /\ last.afterFail.shared) => IssuedNetworkCall

\* two callers received the failure of one network call, and the next call
\* for the key fetches
C10_Witness ==
    /\ LastFetch
    /\ last.afterFail.shared /\ last.afterFail.waiters = 2
    /\ last.ttl > 0
    /\ IssuedNetworkCall
    /\ \E c \in Callers : callers[c].result.outcome = "failed"

---------------------------------------------------------------------------
(* The in-flight marker *)

PendingIds == { r.id : r \in requests }

\* C11: a marker names a network call of its key that has not settled, so
\* a call is attached to pending calls only; when a call settles, with a
\* response or with a failure, its marker is gone.
C11_MarkerRemovedWhenSettled ==
    /\ \A k \in Keys :
          inflight[k] # 0 =>
              \E r \in requests : r.id = inflight[k] /\ r.key = k /\ r.ttl > 0
    /\ (LastFetch /\ last.decision = "attach") =>
          callers[last.caller].req \in PendingIds
    /\ (last.op = "settle") =>
          /\ last.id \notin PendingIds
          /\ \A k \in Keys : inflight[k] # last.id

\* a caching call failed with a caller attached and left no marker
C11_Witness ==
    /\ last.op = "settle" /\ last.outcome = "failed" /\ last.ttl > 0
    /\ failed[last.key].waiters = 2
    /\ inflight[last.key] = 0

---------------------------------------------------------------------------
(* Tenant isolation and authorization *)

\* the rows of the authenticated user from the window start on, stated on
\* the table itself
InOwnWindow(r) == r.user_id = user.id /\ TimestampGte(r.created_at, startUtc)
OwnWindowRows == SelectSeq(evaluations, InOwnWindow)

\* C12: whatever the table holds, the running totals are those of rows of
\* the authenticated user only (a prefix of that user's rows from the
\* window start on), and a successful response is built from these totals:
\* no row of another tenant contributes to it.
C12_OnlyOwnRowsAggregated ==
    (~user.isNull /\ startUtc.valid) =>
        /\ agg.total <= Len(OwnWindowRows)
        /\ agg = AccumulatePage(ZeroAgg, SubSeq(OwnWindowRows, 1, agg.total))
        /\ Succeeded => Data = StatsData(agg, startUtc, days)

\* a response over a table that holds rows of both tenants in the window
C12_Witness ==
    /\ Succeeded
    /\ Data.totalEvals > 0
    /\ Data.totalEvals = Len(OwnWindowRows)
    /\ \E i \in 1..Len(evaluations) :
          /\ evaluations[i].user_id = Other
          /\ TimestampGte(evaluations[i].created_at, startUtc)

\* C13: when getUser yields an error or no user the request ends with
\* 401 'Unauthorized', no page query has been issued and no statistics
\* payload is returned.
C13_UnauthorizedBeforeStoreAccess ==
    (authResult \in {"error", "nouser"}) =>
        /\ pc \in {"done", "idle"}
        /\ response = ErrorResponse(401, "Unauthorized")
        /\ response.data = << >>
        /\ queries = << >>
        /\ pageResults = << >>
        /\ agg = ZeroAgg

\* getUser returned no user and no error, over a table that has rows
C13_Witness ==
    /\ authResult = "nouser"
    /\ pc = "done"
    /\ response.status = 401
    /\ Len(evaluations) > 0

---------------------------------------------------------------------------
(* Responses that are not cacheable *)

NotOkSettled == last.op = "settle" /\ last.outcome = "notok"

\* the response is handed to every caller of the network call and the
\* stored entry is left as it was
NotOkReturnedNotStored ==
    /\ NotOkSettled =>
          /\ cache[last.key] = last.entry
          /\ \A c \in Callers :
                callers[c].req = last.id =>
                    /\ callers[c].st = "returned"
                    /\ callers[c].result =
                          [fromCache |-> FALSE, outcome |-> "notok",
                           payload |-> [ok |-> FALSE, body |-> serverVersion]]
    /\ \A k \in Keys : cache[k].present => cache[k].payload.ok

\* C14 as stated: a response that is not ok is returned to the caller and
\* not stored, and the next call for the key performs a network call.
C14_NotOkNotStoredNextCallFetches ==
    /\ NotOkReturnedNotStored
    /\ (LastFetch /\ (last.afterNotOk.shared \/ last.afterNotOk.bypass))
          => IssuedNetworkCall

\* C14 amended: the last part holds after a response that was not ok to a
\* call made with a positive ttlMs.
C14_NotOkNotStoredNextCachingCallFetches ==
    /\ NotOkReturnedNotStored
    /\ (LastFetch /\ last.afterNotOk.shared) => IssuedNetworkCall

\* a caching call was answered with a response that was not ok, and the
\* next caching call for the key fetches again
C14_Witness ==
    /\ LastFetch
    /\ last.afterNotOk.shared
    /\ last.ttl > 0
    /\ ~last.entry.present
    /\ IssuedNetworkCall
    /\ \E c \in Callers : callers[c].result.outcome = "notok"

---------------------------------------------------------------------------
(* The page ceiling, the days parameter and the window *)

\* every page up to the ceiling was full: the loop ended on its bound
CeilingReached == pc = "done" /\ authResult = "user" /\ offset = OffsetCeiling

\* C15: a request whose page loop ended on the ceiling is aborted with an
\* error response and returns no statistics payload.
C15_CeilingIsReported ==
    CeilingReached =>
        /\ response.status # 200
        /\ Len(response.error) = 1
        /\ response.data = << >>

\* the days parameter is present and is no positive integer
MalformedDays ==
    /\ param.present
    /\ Len(param.text) > 0
    /\ LET d == parseInt(param.text) IN d.nan \/ d.val < 1

\* C16: a request with a malformed days parameter is rejected with an
\* error response and gets no statistics payload.
C16_MalformedDaysRejected ==
    (pc = "done" /\ authResult = "user" /\ MalformedDays) =>
        /\ response.status # 200
        /\ response.data = << >>
        /\ Len(response.error) = 1

\* the rows that were accumulated
RowsRead == SubSeq(OwnWindowRows, 1, agg.total)

\* created_at <= now
NotLaterThanNow(r) == TimestampGte(now, r.created_at)

\* C19: every row that contributes to a successful response has created_at
\* from the start of the UTC day days-1 days before today up to now.
C19_OnlyWindowRowsContribute ==
    (Succeeded /\ PositiveDays) =>
        /\ startUtc = [valid |-> TRUE, day |-> now.day - (days.val - 1), ms |-> 0]
        /\ \A i \in 1..Len(RowsRead) :
              /\ TimestampGte(RowsRead[i].created_at, startUtc)
              /\ NotLaterThanNow(RowsRead[i])

---------------------------------------------------------------------------
(* Averages and rounding *)

RECURSIVE SumScore(_)
SumScore(rows) ==
    IF rows = << >> THEN 0 ELSE Head(rows).score + SumScore(Tail(rows))

RECURSIVE SumLatency(_)
SumLatency(rows) ==
    IF rows = << >> THEN 0 ELSE Head(rows).latency_ms + SumLatency(Tail(rows))

\* r (in tenths) is sum / n rounded to 1 decimal, sum in hundredths: no
\* value with one decimal is nearer to the quotient
IsRoundedTo1Decimal(r, sum, n) ==
    /\ 10 * n * r - sum <= 5 * n
    /\ sum - 10 * n * r <= 5 * n

\* r is sum / n rounded to the nearest integer, a half upwards
IsRoundedToInteger(r, sum, n) ==
    /\ 2 * n * r <= 2 * sum + n
    /\ 2 * sum + n < 2 * n * (r + 1)

\* the caller's rows of the window [startUtc, now] on UTC day date
InWindowOn(r, date) ==
    /\ InOwnWindow(r)
    /\ NotLaterThanNow(r)
    /\ CivilFromDays(r.created_at.day) = date
WindowRowsOn(date) ==
    SelectSeq(evaluations, LAMBDA r : InWindowOn(r, date))

\* C17: each point of a successful response, every query of which was
\* answered with rows, is that of the rows the window holds on its day:
\* count n, the mean score rounded to 1 decimal and the mean latency
\* rounded to the nearest integer, or zeros if n = 0.
C17_DailyPointOfWindowRows ==
    (Succeeded /\ AnsweredWithRows /\ PositiveDays) =>
        \A i \in 1..Len(Data.dailyTrends) :
            LET pt   == Data.dailyTrends[i]
                rows == WindowRowsOn(pt.date)
                n    == Len(rows)
            IN  /\ pt.count = n
                /\ IF n = 0
                   THEN pt.avgScore = 0 /\ pt.avgLatency = 0
                   ELSE /\ IsRoundedTo1Decimal(pt.avgScore, SumScore(rows), n)
                        /\ IsRoundedToInteger(pt.avgLatency, SumLatency(rows), n)

\* records with score >= 70 among the rows read
SuccessesRead == Cardinality({ i \in 1..Len(RowsRead) : RowsRead[i].score >= 7000 })

\* r (in tenths of a percent) is k / n * 100 rounded to 1 decimal
IsRateRoundedTo1Decimal(r, k, n) ==
    /\ 2 * n * r - 2000 * k <= n
    /\ 2000 * k - 2 * n * r <= n

\* C18: the scalars of a successful response are derived from the running
\* totals of the rows read: the mean score rounded to 1 decimal, the mean
\* latency rounded to the nearest integer, the share of rows with
\* score >= 70 in percent rounded to 1 decimal; all three are 0 when no
\* row was read.
C18_ScalarsFromRunningTotals ==
    Succeeded =>
        LET n == Len(RowsRead)
        IN  /\ Data.totalEvals = n
            /\ agg.totalScore = SumScore(RowsRead)
            /\ agg.totalLatency = SumLatency(RowsRead)
            /\ agg.successCount = SuccessesRead
            /\ IF n = 0
               THEN /\ Data.avgScore = 0
                    /\ Data.avgLatency = 0
                    /\ Data.successRate = 0
               ELSE /\ IsRoundedTo1Decimal(Data.avgScore, SumScore(RowsRead), n)
                    /\ IsRoundedToInteger(Data.avgLatency, SumLatency(RowsRead), n)
                    /\ IsRateRoundedTo1Decimal(Data.successRate, SuccessesRead, n)

\* three rows read, neither mean a round number, one row of three below 70
C18_Witness ==
    /\ Succeeded
    /\ Data.totalEvals = 3
    /\ Data.avgScore * 30 # agg.totalScore
    /\ Data.avgLatency * 3 # agg.totalLatency
    /\ Data.successRate = 667

---------------------------------------------------------------------------
(* Rounding at output time only *)

RECURSIVE Reverse(_)
Reverse(rows) ==
    IF rows = << >> THEN << >> ELSE Reverse(Tail(rows)) \o <<Head(rows)>>

\* rows with the rows at positions i and j exchanged
Swap(rows, i, j) ==
    [k \in 1..Len(rows) |->
        IF k = i THEN rows[j] ELSE IF k = j THEN rows[i] ELSE rows[k]]

\* the rows read in two pages, the first of k rows
InTwoPages(rows, k) ==
    AccumulatePage(AccumulatePage(ZeroAgg, SubSeq(rows, 1, k)),
                   SubSeq(rows, k + 1, Len(rows)))

---------------------------------------------------------------------------
(* The default window *)

\* the days parameter written out as 7
ExplicitSeven == [present |-> TRUE, text |-> <<"7">>]

\* C21: a request without a days parameter is processed as one with
\* days = 7: it computes the number and the window start that the parameter
\* "7" gives, and its response is built from them: 7 daily points that end
\* today, and the totals of the rows read from that window start on.
C21_NoDaysIsSevenDays ==
    (authResult = "user" /\ ~param.present) =>
        LET d == parseInt(DaysText(ExplicitSeven))
            s == StartUtc(now, d)
        IN  /\ d = Num(7)
            /\ days = d
            /\ startUtc = s
            /\ startUtc = ValidDate(now.day - 6, 0)
            /\ Succeeded =>
                  /\ Len(Data.dailyTrends) = 7
                  /\ Data.dailyTrends[7].date = TodayCivil
                  /\ Data = StatsData(AccumulatePage(ZeroAgg, RowsRead), s, d)

\* a response to a request without the parameter, over a table with rows
\* on two days of the window
C21_Witness ==
    /\ Succeeded
    /\ ~param.present
    /\ Len(Data.dailyTrends) = 7
    /\ Data.totalEvals >= 2
    /\ Data.dailyTrends[6].count > 0
    /\ Data.dailyTrends[7].count > 0

---------------------------------------------------------------------------
(* Idempotence *)

\* the response to a request of tenant uid with parameter p at time t over
\* the table rows, every query of which the store answers with its rows: a
\* function of these inputs
StatsOf(rows, uid, t, p) ==
    LET d    == parseInt(DaysText(p))
        s    == StartUtc(t, d)
        own  == SelectSeq(rows, LAMBDA r :
                    r.user_id = uid /\ TimestampGte(r.created_at, s))
        n    == IF Len(own) < OffsetCeiling THEN Len(own) ELSE OffsetCeiling
    IN  OkResponse(StatsData(AccumulatePage(ZeroAgg, SubSeq(own, 1, n)), s, d))

\* C22: the response of every successful request that the store answered
\* with its rows, the first one and every later one, is determined by the
\* tenant, the parameter, the time and the table, so two requests with the same inputs over the same table return
\* the same response; and a new request starts from empty accumulators.
C22_SameInputsSameOutput ==
    /\ (Succeeded /\ AnsweredWithRows)
          => response = StatsOf(evaluations, Me, now, param)
    /\ pc = "auth" =>
          /\ agg = ZeroAgg
          /\ queries = << >> /\ pageResults = << >>
          /\ offset = 0
          /\ response = NoResponse

\* a request that repeats the successful request before it has succeeded
\* over a table with rows in two pages
C22_Witness ==
    /\ repeated = "yes"
    /\ Succeeded
    /\ Len(queries) = 2
    /\ Data.totalEvals > pageSize
    /\ Len(Data.dailyTrends) > 1

---------------------------------------------------------------------------
(* The order of the page queries *)

\* the rows the i-th page query of this request selects
PageOf(i) == PageQuery(evaluations, user.id, startUtc, queries[i])

\* the i-th page was received with pageSize rows
FullPage(i) == pageResults[i] = "rows" /\ Len(PageOf(i)) = pageSize

RECURSIVE PagesUpTo(_)
\* the rows of the first n pages received, in the order received
PagesUpTo(n) ==
    IF n = 0 THEN << >>
    ELSE PagesUpTo(n - 1) \o (IF pageResults[n] = "rows" THEN PageOf(n) ELSE << >>)

\* C23: the page queries of a request have the offsets 0, pageSize,
\* 2 * pageSize, ... in this order; at most one of them is outstanding, and
\* then all earlier pages have been received and accumulated; each page is
\* in ascending created_at order and so are the pages together; a query
\* follows only pages that were received full, so none follows a page that
\* was empty, absent or short.
C23_PagesOneAtATimeInOrder ==
    /\ \A i \in 1..Len(queries) : queries[i] = (i - 1) * pageSize
    /\ Len(pageResults) <= Len(queries)
    /\ Len(queries) <= Len(pageResults) + 1
    /\ (pc = "page") <=> (Len(queries) = Len(pageResults) + 1)
    /\ (~user.isNull /\ startUtc.valid) =>
          LET received == PagesUpTo(Len(pageResults))
          IN  /\ \A i \in 1..(Len(queries) - 1) : FullPage(i)
              /\ \A i \in 1..Len(pageResults) : IsAscending(PageOf(i))
              /\ IsAscending(received)
              /\ agg = AccumulatePage(ZeroAgg, received)

\* a request that ended on a short second page after a full first page
C23_Witness ==
    /\ Succeeded
    /\ Len(queries) = 2 /\ Len(pageResults) = 2
    /\ FullPage(1)
    /\ pageResults[2] = "rows"
    /\ Len(PageOf(2)) \in 1..(pageSize - 1)
    /\ offset = pageSize

---------------------------------------------------------------------------
(* Termination of the page loop *)

\* C24: a request issues at most MaxPages page queries, the last one at
\* offset (MaxPages - 1) * pageSize at most, whatever the table holds; and
\* every return of a page query either ends the request with its response
\* or issues exactly one further query, pageSize rows further, of which
\* there are fewer than MaxPages: after at most MaxPages returns of a page
\* query the request has its response.
C24_PageLoopTerminates ==
    [][/\ Len(queries') <= MaxPages
       /\ \A i \in 1..Len(queries') : queries'[i] <= (MaxPages - 1) * pageSize
       /\ pc = "page" =>
             /\ Len(pageResults') = Len(pageResults) + 1
             /\ \/ /\ pc' = "done"
                   /\ response'.status \in {200, 500}
                   /\ queries' = queries
                \/ /\ pc' = "page"
                   /\ Len(pageResults') < MaxPages
                   /\ Len(queries') = Len(queries) + 1
                   /\ queries'[Len(queries')] = queries[Len(queries)] + pageSize]_vars

\* a request answered after MaxPages full pages over a table that holds
\* more rows than these pages
C24_Witness ==
    /\ Succeeded
    /\ Len(queries) = MaxPages
    /\ \A i \in 1..MaxPages : FullPage(i)
    /\ Len(OwnWindowRows) > MaxPages * pageSize

---------------------------------------------------------------------------
(* The score distribution *)

\* the number of accumulated rows with lo <= score < hi (hundredths)
Scored(lo, hi) ==
    Cardinality({ i \in 1..Len(RowsRead) :
                    RowsRead[i].score >= lo /\ RowsRead[i].score < hi })

\* C28: in a successful response the four buckets count the accumulated
\* rows by score (excellent from 90, good from 70 below 90, fair from 50
\* below 70, poor below 50), so they add up to totalEvals, and the success
\* count that successRate is computed from is excellent + good.
C28_DistributionPartitionsRecords ==
    Succeeded =>
        LET sd == Data.scoreDistribution
        IN  /\ sd.excellent = Scored(9000, 10001)
            /\ sd.good = Scored(7000, 9000)
            /\ sd.fair = Scored(5000, 7000)
            /\ sd.poor = Scored(0, 5000)
            /\ sd.excellent + sd.good + sd.fair + sd.poor = Data.totalEvals
            /\ agg.successCount = sd.excellent + sd.good
            /\ Data.totalEvals > 0 =>
                  Data.successRate =
                      RoundDiv((sd.excellent + sd.good) * 1000, Data.totalEvals)

\* a response over rows of all four buckets, one of them a score of 70
C28_Witness ==
    /\ Succeeded
    /\ Data.scoreDistribution.excellent > 0
    /\ Data.scoreDistribution.good > 0
    /\ Data.scoreDistribution.fair > 0
    /\ Data.scoreDistribution.poor > 0
    /\ \E i \in 1..Len(RowsRead) : RowsRead[i].score = 7000

---------------------------------------------------------------------------
(* Saving the settings *)

\* the cache without the entries of the settings URL
WithoutConfigEntries(c) ==
    [k \in DOMAIN c |-> IF k[2] = ConfigUrl THEN NoEntry ELSE c[k]]

\* C27: when a run of handleSubmit has returned, saving is false; the run
\* called clearCache('/api/config') once if its POST was answered with an
\* ok response, and the cache then lacks the entries of that URL; it made
\* no such call and left the cache as it was if validation failed, the
\* response was not ok or the request threw.
C27_ClearsCacheExactlyWhenSaved ==
    LET run == configPage.run
        saved == run.valid /\ run.outcome = "ok"
    IN  run.st = "returned" =>
            /\ ~configPage.saving
            /\ run.clearCalls = IF saved THEN 1 ELSE 0
            /\ cache = IF saved THEN WithoutConfigEntries(run.cacheBefore)
                       ELSE run.cacheBefore

\* a save that succeeded while the cache held the settings
C27_Witness ==
    /\ configPage.run.st = "returned"
    /\ configPage.run.outcome = "ok"
    /\ \E k \in Keys : configPage.run.cacheBefore[k].present /\ ~cache[k].present
    /\ configPage.config.run_policy = "sampled"

---------------------------------------------------------------------------
(* The evaluations page: the rows shown and the page requested *)

\* no run of loadEvaluations and no network call is outstanding
EvaluationsSettled ==
    /\ ~evaluationsPage.redirected
    /\ evaluationsPage.runs = {}
    /\ evaluationsPage.net = {}

\* C26: once every request of the evaluations page has settled, and none
\* of them has failed, the rows shown are those of the selected page.
C26_RowsOfSelectedPage ==
    (EvaluationsSettled /\ ~evaluationsPage.failed) =>
        evaluationsPage.evaluations.of = evaluationsPage.page

\* C30: a click on Previous or Next that changes the page asks for a page
\* within 1..max(1, totalPages); Previous on page 1 and Next on page
\* totalPages change nothing.
C30_PageStaysInRange ==
    LET click == evaluationsPage.click
    IN  /\ click.requested => click.to \in 1..Max(1, click.of)
        /\ (click.dir = "previous" /\ click.from = 1) => ~click.requested
        /\ (click.dir = "next" /\ click.from = click.of) => ~click.requested

---------------------------------------------------------------------------
(* The dashboard: the loading state and the previous statistics *)

\* C25: when no run of loadData is outstanding, loading is false.
C25_LoadingEndsWithTheRuns ==
    (~dashboard.redirected /\ dashboard.runs = {}) => ~dashboard.loading

\* C29: the previous statistics handed to StatsCards for the selected
\* range were computed for that range.
C29_PreviousStatsOfSameRange ==
    (/\ ~dashboard.redirected /\ ~showInitialSkeleton
     /\ dashboard.stats # NullStats /\ previousStats # NullStats) =>
        previousStats = dashboard.days

=============================================================================
